---- MODULE Spec2Model ----
(***************************************************************************)
(* Model of asgi_bench/spec.py: the static endpoint catalog and make_spec, *)
(* which expands a request (frameworks, endpoint modes, categories,        *)
(* benchmark modes, optional limits) into a list of FrameworkSpecs by      *)
(* listing the adapter files of ./frameworks.                              *)
(*                                                                         *)
(* Python str values are TLA+ strings; Optional values are None / Some(v). *)
(* make_spec is modelled as the sequential program it is: one step for the *)
(* prologue, one per iteration of each of its two loops, one for return.   *)
(***************************************************************************)
EXTENDS Integers, Sequences, FiniteSets, TLC

\* ------------------------------------------------------------------ bounds
MaxFrameworks == 3      \* longest requested frameworks tuple
MaxDir        == 2      \* most entries in the frameworks directory
MaxCategories == 2      \* longest requested categories tuple
MaxModes      == 2      \* longest endpoint_modes / benchmark_modes tuple
MaxLimit      == 2      \* largest explicit limit override

\* ---------------------------------------------------------- Python values
None == [tag |-> "None"]
Some(v) == [tag |-> "Some", val |-> v]

\* truth value of an Optional[int]: None and 0 are falsy
Truthy(x) == x # None /\ x.val # 0

\* x or d
PyOr(x, d) == IF Truthy(x) THEN x ELSE Some(d)

\* s.find(ch) + 1 for a one-character ch: 1-based index of the first
\* occurrence, 0 when there is none
Find(s, ch) ==
    IF \E p \in 1..Len(s) : SubSeq(s, p, p) = ch
    THEN CHOOSE p \in 1..Len(s) :
            /\ SubSeq(s, p, p) = ch
            /\ \A q \in 1..(p - 1) : SubSeq(s, q, q) # ch
    ELSE 0

\* mutant: s.rsplit(sep, 1), the split at the last separator
Split1AtLast(s, sep) ==
    IF \E p \in 1..Len(s) : SubSeq(s, p, p) = sep
    THEN LET p == CHOOSE p \in 1..Len(s) :
                     /\ SubSeq(s, p, p) = sep
                     /\ \A q \in (p + 1)..Len(s) : SubSeq(s, q, q) # sep
         IN  <<SubSeq(s, 1, p - 1), SubSeq(s, p + 1, Len(s))>>
    ELSE <<s>>

\* s.split(sep, 1)
Split1(s, sep) ==
    LET p == Find(s, sep)
    IN  IF p = 0 THEN <<s>>
        ELSE <<SubSeq(s, 1, p - 1), SubSeq(s, p + 1, Len(s))>>

\* s.split(sep)
RECURSIVE Split(_, _)
Split(s, sep) ==
    LET p == Find(s, sep)
    IN  IF p = 0 THEN <<s>>
        ELSE <<SubSeq(s, 1, p - 1)>> \o Split(SubSeq(s, p + 1, Len(s)), sep)

\* s.endswith(suffix)
EndsWith(s, suffix) ==
    /\ Len(s) >= Len(suffix)
    /\ SubSeq(s, Len(s) - Len(suffix) + 1, Len(s)) = suffix

\* s.removesuffix(suffix)
RemoveSuffix(s, suffix) ==
    IF EndsWith(s, suffix) /\ Len(suffix) > 0
    THEN SubSeq(s, 1, Len(s) - Len(suffix))
    ELSE s

\* the elements of a tuple or list, for `x in seq`
Elems(seq) == {seq[n] : n \in 1..Len(seq)}

\* concatenation of a list of lists: what nested `for` clauses of a
\* comprehension produce
RECURSIVE Concat(_)
Concat(ss) == IF Len(ss) = 0 THEN <<>> ELSE Head(ss) \o Concat(Tail(ss))

\* ------------------------------------------------------------ the catalog
EndpointExcluding(path, name, exclude) ==
    [path |-> path, name |-> name, exclude |-> exclude, headers |-> <<>>]

Endpoint(path, name) == EndpointExcluding(path, name, <<>>)

DefaultFrameworks == <<"starlite", "starlette", "fastapi", "sanic", "blacksheep">>

TestCategoryFor(name, frameworks, endpoints) ==
    [name |-> name, endpoints |-> endpoints, frameworks |-> frameworks]

TestCategory(name, endpoints) == TestCategoryFor(name, DefaultFrameworks, endpoints)

TEST_CATEGORIES == <<
    TestCategory("plaintext", <<
        Endpoint("plaintext-100B", "plaintext 100 bytes"),
        Endpoint("plaintext-1K", "plaintext 1 kB"),
        Endpoint("plaintext-10K", "plaintext 10 kB"),
        Endpoint("plaintext-100K", "plaintext 100 kB"),
        Endpoint("plaintext-500K", "plaintext 500 kB"),
        Endpoint("plaintext-1M", "plaintext 1 MB"),
        Endpoint("plaintext-5M", "plaintext 5 MB") >>),
    TestCategory("json", <<
        Endpoint("json-1K", "json 1 kB"),
        Endpoint("json-10K", "json 10 kB"),
        Endpoint("json-100K", "json 100 kB"),
        Endpoint("json-500K", "json 500 kB"),
        Endpoint("json-1M", "json 1 MB"),
        Endpoint("json-5M", "json 5 MB") >>),
    TestCategory("files", <<
        Endpoint("file-response-100B", "file response 100 bytes"),
        Endpoint("file-response-1K", "file response 1 kB"),
        Endpoint("file-response-10K", "file response 10 kB"),
        Endpoint("file-response-100K", "file response 100 kB"),
        Endpoint("file-response-500K", "file response 500 kB"),
        Endpoint("file-response-1M", "file response 1 MB"),
        Endpoint("file-response-5M", "file response 5 MB") >>),
    TestCategory("params", <<
        Endpoint("no-params", "no params"),
        Endpoint("path-params/42", "path params"),
        Endpoint("query-param?first=42", "query params"),
        Endpoint("mixed-params/42?first=21", "mixed params") >>),
    TestCategory("dynamic-response", <<
        Endpoint("response-headers", "response headers"),
        Endpoint("response-cookies", "response cookies") >>),
    TestCategoryFor("dependency-injection",
        <<"starlite", "fastapi", "sanic", "blacksheep">>, <<
        Endpoint("dependencies-sync", "dependencies sync"),
        EndpointExcluding("dependencies-async", "dependencies async",
                          <<"sanic", "blacksheep">>),
        EndpointExcluding("dependencies-mixed", "dependencies mixed",
                          <<"sanic", "blacksheep">>) >>),
    TestCategoryFor("serialization", <<"starlite", "fastapi">>, <<
        Endpoint("serialize-pydantic-50", "serialize pydantic, 50 objects"),
        Endpoint("serialize-pydantic-100", "serialize pydantic, 100 objects"),
        Endpoint("serialize-pydantic-500", "serialize pydantic, 500 objects"),
        Endpoint("serialize-dataclasses-50", "serialize dataclasses, 50 objects"),
        Endpoint("serialize-dataclasses-100", "serialize dataclasses, 100 objects"),
        Endpoint("serialize-dataclasses-500", "serialize dataclasses, 500 objects") >>)
>>

ENDPOINT_CATEGORIES == [n \in 1..Len(TEST_CATEGORIES) |-> TEST_CATEGORIES[n].name]

CATEGORIES_BY_NAME ==
    [nm \in Elems(ENDPOINT_CATEGORIES) |->
        CHOOSE c \in Elems(TEST_CATEGORIES) : c.name = nm]

FRAMEWORKS == <<"starlite", "starlette", "fastapi", "sanic", "blacksheep">>


\* ------------------------------------------------- state of one make_spec call
VARIABLES
    args,                  \* the keyword arguments of the call
    fs,                    \* ./frameworks: whether it exists, its entries in iteration order
    pc,                    \* "start", "parse", "scan", "done" or "raised"
    endpoint_modes,        \* locals, after the isinstance normalisation
    categories,
    benchmark_modes,
    selected_categories,
    requested_frameworks,  \* defaultdict(list): name -> requested versions
    framework_specs,
    i,                     \* position of `for framework in frameworks`
    j,                     \* position of `for path in ....iterdir()`
    result                 \* the returned list, once pc = "done"

vars == <<args, fs, pc, endpoint_modes, categories, benchmark_modes,
          selected_categories, requested_frameworks, framework_specs, i, j, result>>

\* an argument that is either one str or a tuple of str
IsStr(x) == "str" \in DOMAIN x

\* if isinstance(x, str): x = (x,)
AsTuple(x) == IF IsStr(x) THEN <<x.str>> ELSE x.tuple

\* mutant: the categories looked up in the order they were requested
SelectedCategoriesAsRequested(cats) ==
    LET known == SelectSeq(cats, LAMBDA nm : nm \in DOMAIN CATEGORIES_BY_NAME)
    IN  [n \in 1..Len(known) |-> CATEGORIES_BY_NAME[known[n]]]

\* mutant: an empty selection falls back to the whole catalog
SelectedCategoriesOrAll(cats) ==
    LET selected == SelectSeq(TEST_CATEGORIES, LAMBDA c : c.name \in Elems(cats))
    IN  IF selected = <<>> THEN TEST_CATEGORIES ELSE selected

\* [c for c in TEST_CATEGORIES if c.name in categories]
SelectedCategories(cats) ==
    SelectSeq(TEST_CATEGORIES, LAMBDA c : c.name \in Elems(cats))

\* name, *parts = framework.split("@", 1); version = parts[0] if parts else None
ParseFramework(framework) ==
    LET split == Split1(framework, "@")
        parts == Tail(split)
    IN  [name |-> Head(split),
         version |-> IF Len(parts) > 0 THEN Some(parts[1]) ELSE None]

\* mutant: requested_frameworks[name] = [version], the last request wins
AppendVersionOverwriting(requested, name, version) ==
    (name :> <<version>>) @@ requested

\* requested_frameworks[name].append(version) on a defaultdict(list)
AppendVersion(requested, name, version) ==
    IF name \in DOMAIN requested
    THEN [requested EXCEPT ![name] = Append(@, version)]
    ELSE requested @@ (name :> <<version>>)

\* requested_frameworks.get(framework_name, [])
GetVersions(requested, name) ==
    IF name \in DOMAIN requested THEN requested[name] ELSE <<>>

\* mutant: no is_file() test
IsAdapterByNameOnly(entry) == EndsWith(entry.name, "_app.py")

\* path.is_file() and path.name.endswith("_app.py")
IsAdapter(entry) == entry.is_file /\ EndsWith(entry.name, "_app.py")

\* path.name.removesuffix("_app.py")
FrameworkName(entry) == RemoveSuffix(entry.name, "_app.py")

\* mutant: the time limit given to the latency runs instead of the rps runs
TimeLimitWrongMode(benchmark_mode, time_limit) ==
    IF benchmark_mode = "latency" THEN PyOr(time_limit, 15) ELSE None

\* mutant: the override is never looked at
TimeLimitNoOverride(benchmark_mode, time_limit) ==
    IF benchmark_mode = "rps" THEN Some(15) ELSE None

\* time_limit or 15 if benchmark_mode == "rps" else None
TimeLimit(benchmark_mode, time_limit) ==
    IF benchmark_mode = "rps" THEN PyOr(time_limit, 15) ELSE None

\* request_limit or 1000 if benchmark_mode == "latency" else None
RequestLimit(benchmark_mode, request_limit) ==
    IF benchmark_mode = "latency" THEN PyOr(request_limit, 1000) ELSE None

\* rate_limit or 20 if benchmark_mode == "latency" else None
RateLimit(benchmark_mode, rate_limit) ==
    IF benchmark_mode = "latency" THEN PyOr(rate_limit, 20) ELSE None

\* f"/{endpoint_mode}-{endpoint.path}"
TestPath(endpoint_mode, endpoint) == "/" \o endpoint_mode \o "-" \o endpoint.path

\* mutant: the query string is kept in the slug
SlugNameWithQuery(endpoint_mode, endpoint) ==
    endpoint_mode \o "-" \o endpoint.path

\* f"{endpoint_mode}-{endpoint.path.split('?')[0]}"
SlugName(endpoint_mode, endpoint) ==
    endpoint_mode \o "-" \o Split(endpoint.path, "?")[1]

\* mutant: the endpoint's exclude list is not consulted
IsSupportedByCategory(framework_name, category, endpoint) ==
    framework_name \in Elems(category.frameworks)

\* framework_name in category.frameworks and framework_name not in endpoint.exclude
IsSupported(framework_name, category, endpoint) ==
    /\ framework_name \in Elems(category.frameworks)
    /\ framework_name \notin Elems(endpoint.exclude)

\* the TestSpec(...) constructor call of the comprehension
TestSpec(framework_name, benchmark_mode, endpoint_mode, category, endpoint) ==
    [path |-> TestPath(endpoint_mode, endpoint),
     endpoint_mode |-> endpoint_mode,
     benchmark_mode |-> benchmark_mode,
     category |-> category.name,
     name |-> endpoint.name,
     headers |-> endpoint.headers,
     warmup_time |-> args.warmup_time,
     time_limit |-> TimeLimit(benchmark_mode, args.time_limit),
     request_limit |-> RequestLimit(benchmark_mode, args.request_limit),
     rate_limit |-> RateLimit(benchmark_mode, args.rate_limit),
     slug_name |-> SlugName(endpoint_mode, endpoint),
     is_supported |-> IsSupported(framework_name, category, endpoint)]

\* the comprehension: for benchmark_mode ... for endpoint_mode ...
\* for category in selected_categories for endpoint in category.endpoints
TestSpecs(framework_name, bms, ems, selected) ==
    Concat([b \in 1..Len(bms) |->
        Concat([e \in 1..Len(ems) |->
            Concat([c \in 1..Len(selected) |->
                [k \in 1..Len(selected[c].endpoints) |->
                    TestSpec(framework_name, bms[b], ems[e],
                             selected[c], selected[c].endpoints[k])]])])])

\* FrameworkSpec(name=..., version=..., path=..., tests=...)
FrameworkSpec(name, version, path, tests) ==
    [name |-> name, version |-> version, path |-> path, tests |-> tests]

\* the body of `for requested_version in requested_frameworks.get(...)`,
\* for every requested version in turn
SpecsForVersions(entry, versions) ==
    [v \in 1..Len(versions) |->
        FrameworkSpec(FrameworkName(entry), versions[v],
                      "frameworks/" \o entry.name,
                      TestSpecs(FrameworkName(entry), benchmark_modes,
                                endpoint_modes, selected_categories))]

\* mutant: framework_specs.insert(0, ...)
AppendSpecsInFront(specs, new) ==
    [n \in 1..Len(new) |-> new[Len(new) + 1 - n]] \o specs

\* framework_specs.append(...) for each of them
AppendSpecs(specs, new) == specs \o new

\* ------------------------------------------------------------------ steps
\* lines 121-130: normalise the arguments, select the categories
Normalize ==
    /\ pc = "start"
    /\ endpoint_modes' = AsTuple(args.endpoint_modes)
    /\ categories' = AsTuple(args.categories)
    /\ benchmark_modes' = AsTuple(args.benchmark_modes)
    /\ selected_categories' = SelectedCategories(AsTuple(args.categories))
    /\ framework_specs' = <<>>
    /\ requested_frameworks' = <<>>
    /\ i' = 1
    /\ pc' = "parse"
    /\ UNCHANGED <<args, fs, j, result>>

\* lines 132-135: one iteration of `for framework in frameworks`
ParseStep ==
    /\ pc = "parse"
    /\ i <= Len(args.frameworks)
    /\ LET parsed == ParseFramework(args.frameworks[i])
       IN  requested_frameworks' =
               AppendVersion(requested_frameworks, parsed.name, parsed.version)
    /\ i' = i + 1
    /\ UNCHANGED <<args, fs, pc, endpoint_modes, categories, benchmark_modes,
                   selected_categories, framework_specs, j, result>>

\* line 137: the loop over the requested frameworks is exhausted and the
\* directory is opened
Iterdir ==
    /\ pc = "parse"
    /\ i > Len(args.frameworks)
    /\ fs.exists
    /\ j' = 1
    /\ pc' = "scan"
    /\ UNCHANGED <<args, fs, endpoint_modes, categories, benchmark_modes,
                   selected_categories, requested_frameworks, framework_specs,
                   i, result>>

\* line 137: iterdir() of a directory that does not exist raises
IterdirRaises ==
    /\ pc = "parse"
    /\ i > Len(args.frameworks)
    /\ ~fs.exists
    /\ pc' = "raised"
    /\ UNCHANGED <<args, fs, endpoint_modes, categories, benchmark_modes,
                   selected_categories, requested_frameworks, framework_specs,
                   i, j, result>>

\* line 138: the entry is not a file or does not end in _app.py
SkipEntry ==
    /\ pc = "scan"
    /\ j <= Len(fs.entries)
    /\ ~IsAdapter(fs.entries[j])
    /\ j' = j + 1
    /\ UNCHANGED <<args, fs, pc, endpoint_modes, categories, benchmark_modes,
                   selected_categories, requested_frameworks, framework_specs,
                   i, result>>

\* lines 139-141: an adapter nobody requested
SkipUnrequested ==
    /\ pc = "scan"
    /\ j <= Len(fs.entries)
    /\ IsAdapter(fs.entries[j])
    /\ FrameworkName(fs.entries[j]) \notin DOMAIN requested_frameworks
    /\ j' = j + 1
    /\ UNCHANGED <<args, fs, pc, endpoint_modes, categories, benchmark_modes,
                   selected_categories, requested_frameworks, framework_specs,
                   i, result>>

\* lines 139-170: a requested adapter: one FrameworkSpec per requested version
BuildFrameworkSpecs ==
    /\ pc = "scan"
    /\ j <= Len(fs.entries)
    /\ IsAdapter(fs.entries[j])
    /\ FrameworkName(fs.entries[j]) \in DOMAIN requested_frameworks
    /\ framework_specs' =
           AppendSpecs(framework_specs,
               SpecsForVersions(fs.entries[j],
                   GetVersions(requested_frameworks, FrameworkName(fs.entries[j]))))
    /\ j' = j + 1
    /\ UNCHANGED <<args, fs, pc, endpoint_modes, categories, benchmark_modes,
                   selected_categories, requested_frameworks, i, result>>

\* line 172
Return ==
    /\ pc = "scan"
    /\ j > Len(fs.entries)
    /\ result' = framework_specs
    /\ pc' = "done"
    /\ UNCHANGED <<args, fs, endpoint_modes, categories, benchmark_modes,
                   selected_categories, requested_frameworks, framework_specs,
                   i, j>>

Next ==
    \/ Normalize
    \/ ParseStep
    \/ Iterdir
    \/ IterdirRaises
    \/ SkipEntry
    \/ SkipUnrequested
    \/ BuildFrameworkSpecs
    \/ Return

\* ------------------------------------------------------------- the inputs
SeqsUpTo(S, n) == UNION {[1..m -> S] : m \in 0..n}

\* listings without a repeated name
Listings(S, n) ==
    {l \in SeqsUpTo(S, n) :
        \A a, b \in 1..Len(l) : a # b => l[a].name # l[b].name}

TupleOrStr(S, n) == {[tuple |-> t] : t \in SeqsUpTo(S, n)} \cup {[str |-> s] : s \in S}

Optionals(S) == {None} \cup {Some(v) : v \in S}

File(name) == [name |-> name, is_file |-> TRUE]
Directory(name) == [name |-> name, is_file |-> FALSE]

Missing == [exists |-> FALSE, entries |-> <<>>]
Listing(entries) == [exists |-> TRUE, entries |-> entries]

EndpointModes == {"sync", "async"}
BenchmarkModes == {"rps", "latency"}
CategoryNames == Elems(ENDPOINT_CATEGORIES) \cup {"websocket"}

FrameworkStrings ==
    {"sanic", "sanic@23.3", "sanic@22.12", "sanic@", "a@b@c", "quart"}

DirEntries ==
    {File("sanic_app.py"), File("a_app.py"), File("__init__.py"),
     Directory("quart_app.py")}

\* a file that is no adapter, an adapter of no known framework, and every
\* adapter of FRAMEWORKS
AllAdapters ==
    Listing(<<File("README.md"), File("quart_app.py")>> \o
            [n \in 1..Len(FRAMEWORKS) |-> File(FRAMEWORKS[n] \o "_app.py")])

InitLocals ==
    /\ pc = "start"
    /\ endpoint_modes = <<>>
    /\ categories = <<>>
    /\ benchmark_modes = <<>>
    /\ selected_categories = <<>>
    /\ requested_frameworks = <<>>
    /\ framework_specs = <<>>
    /\ i = 0
    /\ j = 0
    /\ result = <<>>

Call(fws, ems, cats, wt, tl, rl, ratel, bms) ==
    [frameworks |-> fws, endpoint_modes |-> ems, categories |-> cats,
     warmup_time |-> wt, time_limit |-> tl, request_limit |-> rl,
     rate_limit |-> ratel, benchmark_modes |-> bms]

\* requests and directories vary; one category, known or unknown
InitFrameworks ==
    /\ \E fws \in SeqsUpTo(FrameworkStrings, MaxFrameworks),
          cats \in {[tuple |-> <<"dependency-injection">>], [tuple |-> <<"websocket">>]} :
          args = Call(fws, [str |-> "sync"], cats, None, None, None, None, [str |-> "rps"])
    /\ fs \in {Listing(l) : l \in Listings(DirEntries, MaxDir)} \cup {Missing}
    /\ InitLocals

\* categories and modes vary; every framework requested, every adapter present
InitCatalog ==
    /\ \/ \E cats \in TupleOrStr(CategoryNames, MaxCategories) :
            args = Call(FRAMEWORKS, [tuple |-> <<"sync", "async">>], cats,
                        None, None, None, None, [tuple |-> <<"rps", "latency">>])
       \/ \E ems \in TupleOrStr(EndpointModes, MaxModes),
             bms \in TupleOrStr(BenchmarkModes, MaxModes) :
            args = Call(FRAMEWORKS, ems, [tuple |-> <<"params", "dependency-injection">>],
                        None, None, None, None, bms)
    /\ fs \in {AllAdapters, Missing}
    /\ InitLocals

\* limits and benchmark modes vary
InitLimits ==
    /\ \E bms \in TupleOrStr(BenchmarkModes, MaxModes),
          wt \in Optionals({5}),
          tl \in Optionals(0..MaxLimit),
          rl \in Optionals(0..MaxLimit),
          ratel \in Optionals(0..MaxLimit) :
          args = Call(<<"sanic">>, [str |-> "sync"], [str |-> "params"],
                      wt, tl, rl, ratel, bms)
    /\ fs \in {Listing(<<Directory("__pycache__"), File("starlite_app.py"),
                         File("sanic_app.py")>>), Missing}
    /\ InitLocals

SpecFrameworks == InitFrameworks /\ [][Next]_vars
SpecCatalog == InitCatalog /\ [][Next]_vars
SpecLimits == InitLimits /\ [][Next]_vars

\* ------------------------------------------------------------- properties
\* what the claims quantify over: the FrameworkSpecs and TestSpecs returned
Returned == IF pc = "done" THEN 1..Len(result) ELSE {}
Tests(f) == 1..Len(result[f].tests)

\* the catalog category and endpoint a TestSpec was built from
CategoryOf(t) == CHOOSE c \in Elems(TEST_CATEGORIES) : c.name = t.category
EndpointOf(t) == CHOOSE e \in Elems(CategoryOf(t).endpoints) : e.name = t.name

\* s up to, not including, its first ch (all of s when it has none)
BeforeFirst(s, ch) ==
    CHOOSE pre \in {SubSeq(s, 1, n) : n \in 0..Len(s)} :
        /\ \A q \in 1..Len(pre) : SubSeq(pre, q, q) # ch
        /\ Len(pre) = Len(s) \/ SubSeq(s, Len(pre) + 1, Len(pre) + 1) = ch

\* C1: is_supported of every returned TestSpec is true iff the FrameworkSpec's
\* name is in the frameworks of the TestSpec's category and not in the exclude
\* list of its endpoint; for dependency-injection / dependencies-async it is
\* false for sanic and blacksheep, true for starlite and fastapi, false for
\* starlette.
C1_IsSupported ==
    \A f \in Returned : \A n \in Tests(f) :
        LET t == result[f].tests[n]
            fw == result[f].name
        IN  /\ t.is_supported <=>
                  /\ fw \in Elems(CategoryOf(t).frameworks)
                  /\ fw \notin Elems(EndpointOf(t).exclude)
            /\ t.category = "dependency-injection" /\ t.name = "dependencies async" =>
                  /\ fw \in {"sanic", "blacksheep", "starlette"} => ~t.is_supported
                  /\ fw \in {"starlite", "fastapi"} => t.is_supported

C1_Witness ==
    /\ pc = "done"
    /\ \E f, g, h \in Returned : \E n \in Tests(f) :
        /\ result[f].name = "sanic" /\ result[g].name = "starlite"
        /\ result[h].name = "starlette"
        /\ result[f].tests[n].name = "dependencies async"
        /\ result[g].tests[n].name = "dependencies async"
        /\ result[h].tests[n].name = "dependencies async"
        /\ ~result[f].tests[n].is_supported
        /\ result[g].tests[n].is_supported
        /\ ~result[h].tests[n].is_supported

\* C2: with no explicit time_limit every rps TestSpec has time_limit 15 and no
\* request_limit or rate_limit; with no overrides every latency TestSpec has
\* request_limit 1000, rate_limit 20 and no time_limit.
C2_Defaults ==
    \A f \in Returned : \A n \in Tests(f) :
        LET t == result[f].tests[n]
        IN  /\ t.benchmark_mode = "rps" /\ args.time_limit = None =>
                  /\ t.time_limit = Some(15)
                  /\ t.request_limit = None
                  /\ t.rate_limit = None
            /\ (/\ t.benchmark_mode = "latency"
                /\ args.time_limit = None
                /\ args.request_limit = None
                /\ args.rate_limit = None) =>
                  /\ t.request_limit = Some(1000)
                  /\ t.rate_limit = Some(20)
                  /\ t.time_limit = None

C2_Witness ==
    /\ pc = "done"
    /\ args.time_limit = None /\ args.request_limit = None /\ args.rate_limit = None
    /\ \E f \in Returned : \E n, m \in Tests(f) :
        /\ result[f].tests[n].benchmark_mode = "rps"
        /\ result[f].tests[n].time_limit = Some(15)
        /\ result[f].tests[m].benchmark_mode = "latency"
        /\ result[f].tests[m].request_limit = Some(1000)

\* C4: path is "/" + endpoint_mode + "-" + endpoint.path, slug_name is
\* endpoint_mode + "-" + endpoint.path cut before its first "?", so slug_name
\* is path without its leading "/" and without everything from the first "?";
\* sync and query-param?first=42 give /sync-query-param?first=42 and
\* sync-query-param.
C4_PathAndSlug ==
    \A f \in Returned : \A n \in Tests(f) :
        LET t == result[f].tests[n]
            e == EndpointOf(t)
            m == t.endpoint_mode
        IN  /\ t.path = "/" \o m \o "-" \o e.path
            /\ t.slug_name = m \o "-" \o BeforeFirst(e.path, "?")
            /\ t.slug_name = BeforeFirst(SubSeq(t.path, 2, Len(t.path)), "?")
            /\ BeforeFirst(e.path, "?") = e.path =>
                   t.slug_name = SubSeq(t.path, 2, Len(t.path))
            /\ m = "sync" /\ e.path = "query-param?first=42" =>
                   /\ t.path = "/sync-query-param?first=42"
                   /\ t.slug_name = "sync-query-param"

C4_Witness ==
    /\ pc = "done"
    /\ \E f \in Returned : \E n, m \in Tests(f) :
        /\ result[f].tests[n].path = "/sync-query-param?first=42"
        /\ result[f].tests[n].slug_name = "sync-query-param"
        /\ result[f].tests[m].path = "/async-path-params/42"
        /\ result[f].tests[m].slug_name = "async-path-params/42"

\* C3 as stated: an explicit override of time_limit, request_limit or
\* rate_limit is carried by every TestSpec, in either benchmark mode and for
\* every integer value including 0; the default or unset is used only when no
\* override was passed.
C3_OverrideAlwaysCarried ==
    \A f \in Returned : \A n \in Tests(f) :
        LET t == result[f].tests[n]
        IN  /\ t.time_limit =
                  IF args.time_limit # None THEN args.time_limit
                  ELSE IF t.benchmark_mode = "rps" THEN Some(15) ELSE None
            /\ t.request_limit =
                  IF args.request_limit # None THEN args.request_limit
                  ELSE IF t.benchmark_mode = "latency" THEN Some(1000) ELSE None
            /\ t.rate_limit =
                  IF args.rate_limit # None THEN args.rate_limit
                  ELSE IF t.benchmark_mode = "latency" THEN Some(20) ELSE None

\* C3 amended: a non-zero time_limit override is carried by every rps TestSpec
\* and a non-zero request_limit or rate_limit override by every latency
\* TestSpec; in the other benchmark mode the field is unset whatever was
\* passed; an override of 0 gives the mode default, as no override does.
C3_OverrideCarriedInItsMode ==
    \A f \in Returned : \A n \in Tests(f) :
        LET t == result[f].tests[n]
            given(x) == x # None /\ x # Some(0)
        IN  /\ t.time_limit =
                  IF t.benchmark_mode # "rps" THEN None
                  ELSE IF given(args.time_limit) THEN args.time_limit ELSE Some(15)
            /\ t.request_limit =
                  IF t.benchmark_mode # "latency" THEN None
                  ELSE IF given(args.request_limit) THEN args.request_limit ELSE Some(1000)
            /\ t.rate_limit =
                  IF t.benchmark_mode # "latency" THEN None
                  ELSE IF given(args.rate_limit) THEN args.rate_limit ELSE Some(20)

C3_Witness ==
    /\ pc = "done"
    /\ args.time_limit = Some(2) /\ args.request_limit = Some(1) /\ args.rate_limit = Some(0)
    /\ \E f \in Returned : \E n, m \in Tests(f) :
        /\ result[f].tests[n].benchmark_mode = "rps"
        /\ result[f].tests[n].time_limit = Some(2)
        /\ result[f].tests[n].request_limit = None
        /\ result[f].tests[m].benchmark_mode = "latency"
        /\ result[f].tests[m].time_limit = None
        /\ result[f].tests[m].request_limit = Some(1)
        /\ result[f].tests[m].rate_limit = Some(20)

\* the requested catalog categories before position c of the catalog hold
\* this many endpoints
RECURSIVE EndpointsBefore(_)
EndpointsBefore(c) ==
    IF c <= 1 THEN 0
    ELSE EndpointsBefore(c - 1) +
         IF TEST_CATEGORIES[c - 1].name \in Elems(AsTuple(args.categories))
         THEN Len(TEST_CATEGORIES[c - 1].endpoints) ELSE 0

\* C5: the tests of every returned FrameworkSpec are the full cross-product:
\* benchmark_mode outermost in requested order, then endpoint_mode in requested
\* order, then the requested categories in catalog order, then the category's
\* endpoints in catalog order; the length is |benchmark_modes| *
\* |endpoint_modes| * (endpoints of the requested catalog categories).
C5_CrossProduct ==
    \A f \in Returned :
        LET tests == result[f].tests
            bms == AsTuple(args.benchmark_modes)
            ems == AsTuple(args.endpoint_modes)
            total == EndpointsBefore(Len(TEST_CATEGORIES) + 1)
        IN  /\ Len(tests) = Len(bms) * Len(ems) * total
            /\ \A b \in 1..Len(bms), e \in 1..Len(ems), c \in 1..Len(TEST_CATEGORIES) :
                 TEST_CATEGORIES[c].name \in Elems(AsTuple(args.categories)) =>
                   \A k \in 1..Len(TEST_CATEGORIES[c].endpoints) :
                     LET t == tests[((b - 1) * Len(ems) + (e - 1)) * total
                                    + EndpointsBefore(c) + k]
                     IN  /\ t.benchmark_mode = bms[b]
                         /\ t.endpoint_mode = ems[e]
                         /\ t.category = TEST_CATEGORIES[c].name
                         /\ t.name = TEST_CATEGORIES[c].endpoints[k].name

C5_Witness ==
    /\ pc = "done"
    /\ args.categories = [tuple |-> <<"json", "plaintext">>]
    /\ args.benchmark_modes = [tuple |-> <<"rps", "latency">>]
    /\ \E f \in Returned :
        /\ Len(result[f].tests) = 52
        /\ result[f].tests[1].category = "plaintext"
        /\ result[f].tests[8].category = "json"
        /\ result[f].tests[14].endpoint_mode = "async"
        /\ result[f].tests[27].benchmark_mode = "latency"

\* the request names no category of the catalog
NoCategoryMatch ==
    Elems(AsTuple(args.categories)) \cap Elems(ENDPOINT_CATEGORIES) = {}

\* the requested names, read off the frameworks argument
RequestedNames == {BeforeFirst(s, "@") : s \in Elems(args.frameworks)}

\* the names that have an adapter: a regular file <name>_app.py
HasAdapter(name) ==
    \E k \in 1..Len(fs.entries) :
        fs.entries[k].is_file /\ fs.entries[k].name = name \o "_app.py"

\* C9 as stated: when no requested category is a catalog category, make_spec
\* does not fail and returns the empty list.
C9_NoCategoryGivesEmptyList ==
    NoCategoryMatch =>
        /\ fs.exists => pc # "raised"
        /\ pc = "done" => result = <<>>

\* C9 amended: when no requested category is a catalog category, make_spec
\* does not fail and every FrameworkSpec it returns has an empty tests list;
\* the returned list itself is empty only when no requested framework has an
\* adapter file.
C9_NoCategoryGivesEmptyTests ==
    NoCategoryMatch =>
        /\ fs.exists => pc # "raised"
        /\ \A f \in Returned : result[f].tests = <<>>
        /\ pc = "done" =>
              (result = <<>> <=> ~ \E nm \in RequestedNames : HasAdapter(nm))

C9_Witness ==
    /\ pc = "done"
    /\ NoCategoryMatch
    /\ Len(result) = 2
    /\ result[1].tests = <<>>
    /\ result[2].tests = <<>>

\* the version part of a requested framework string
VersionPart(s) ==
    IF BeforeFirst(s, "@") = s THEN None
    ELSE Some(SubSeq(s, Len(BeforeFirst(s, "@")) + 2, Len(s)))

ReturnedNames == {result[f].name : f \in Returned}

\* C6: for every name with an adapter file there is exactly one FrameworkSpec
\* per requested string carrying that name (repeats counted), its version the
\* string's version part (None for a bare name), and all FrameworkSpecs of one
\* name hold the same tests; ["sanic@23.3", "sanic@22.12"] with sanic_app.py
\* present gives two FrameworkSpecs named sanic, versions "23.3" and "22.12".
C6_OneSpecPerRequest ==
    pc = "done" =>
        /\ \A nm \in RequestedNames \cup ReturnedNames : HasAdapter(nm) =>
             \A v \in {VersionPart(s) : s \in Elems(args.frameworks)}
                      \cup {result[f].version : f \in Returned} :
                Cardinality({f \in Returned :
                                result[f].name = nm /\ result[f].version = v})
                = Cardinality({k \in 1..Len(args.frameworks) :
                                /\ BeforeFirst(args.frameworks[k], "@") = nm
                                /\ VersionPart(args.frameworks[k]) = v})
        /\ \A f, g \in Returned :
             result[f].name = result[g].name => result[f].tests = result[g].tests
        /\ args.frameworks = <<"sanic@23.3", "sanic@22.12">> /\ HasAdapter("sanic") =>
             /\ Len(result) = 2
             /\ result[1].name = "sanic" /\ result[1].version = Some("23.3")
             /\ result[2].name = "sanic" /\ result[2].version = Some("22.12")

C6_Witness ==
    /\ pc = "done"
    /\ args.frameworks = <<"sanic@23.3", "sanic", "sanic@23.3">>
    /\ Len(result) = 3
    /\ result[1].version = Some("23.3")
    /\ result[2].version = None
    /\ result[3].version = Some("23.3")
    /\ result[1].tests = result[3].tests
    /\ Len(result[1].tests) = 3

\* C7: the returned list follows the order in which the adapter files were
\* discovered, not the order of the request; the FrameworkSpecs of one name
\* are contiguous and, within one name, in the order in which that name's
\* strings were requested.
C7_ReturnOrder ==
    pc = "done" =>
        /\ \A f \in Returned : HasAdapter(result[f].name)
        /\ \A f, g \in Returned : f < g =>
             LET at(nm) == CHOOSE k \in 1..Len(fs.entries) :
                              fs.entries[k].name = nm \o "_app.py"
             IN  /\ at(result[f].name) <= at(result[g].name)
                 /\ result[f].name = result[g].name =>
                      \A h \in f..g : result[h].name = result[f].name
        /\ \A nm \in ReturnedNames :
             LET got == SelectSeq(result, LAMBDA r : r.name = nm)
                 asked == SelectSeq(args.frameworks,
                                    LAMBDA s : BeforeFirst(s, "@") = nm)
             IN  /\ Len(got) = Len(asked)
                 /\ \A n \in 1..Len(got) : got[n].version = VersionPart(asked[n])

C7_Witness ==
    /\ pc = "done"
    /\ args.frameworks = <<"sanic@23.3", "a@b@c", "sanic@22.12">>
    /\ fs.entries = <<File("a_app.py"), File("sanic_app.py")>>
    /\ Len(result) = 3
    /\ result[1].name = "a"
    /\ result[2].name = "sanic" /\ result[2].version = Some("23.3")
    /\ result[3].name = "sanic" /\ result[3].version = Some("22.12")

\* C8: the names of the returned FrameworkSpecs are the requested names that
\* have a regular file <name>_app.py in the directory: a requested name with
\* no adapter file, an adapter nobody requested, and an entry that is no file
\* or does not end in _app.py give nothing, and an empty intersection gives
\* the empty list.
C8_NamesAreIntersection ==
    pc = "done" =>
        /\ ReturnedNames = {nm \in RequestedNames : HasAdapter(nm)}
        /\ (~ \E nm \in RequestedNames : HasAdapter(nm)) => result = <<>>

C8_Witness ==
    /\ pc = "done"
    /\ args.frameworks = <<"quart", "sanic", "a@b@c">>
    /\ fs.entries = <<Directory("quart_app.py"), File("sanic_app.py")>>
    /\ Len(result) = 1
    /\ result[1].name = "sanic"

\* C10: a requested string is split at its first "@" only: the name is the
\* text before it (the whole string when there is none), the version all the
\* text after it, further "@" included ("a@b@c": name a, version "b@c"); the
\* version is None exactly when the string has no "@" ("sanic@" has version
\* ""), and the adapter is looked up by the parsed name alone.
C10_SplitAtFirstAt ==
    pc \in {"scan", "done"} =>
        /\ \A s \in Elems(args.frameworks) :
             IF \A p \in 1..Len(s) : SubSeq(s, p, p) # "@"
             THEN /\ s \in DOMAIN requested_frameworks
                  /\ None \in Elems(requested_frameworks[s])
             ELSE \E p \in 1..Len(s) :
                  /\ SubSeq(s, p, p) = "@"
                  /\ \A q \in 1..(p - 1) : SubSeq(s, q, q) # "@"
                  /\ SubSeq(s, 1, p - 1) \in DOMAIN requested_frameworks
                  /\ Some(SubSeq(s, p + 1, Len(s)))
                        \in Elems(requested_frameworks[SubSeq(s, 1, p - 1)])
        /\ \A nm \in DOMAIN requested_frameworks :
             /\ Len(requested_frameworks[nm]) =
                   Cardinality({k \in 1..Len(args.frameworks) :
                                   BeforeFirst(args.frameworks[k], "@") = nm})
             /\ None \in Elems(requested_frameworks[nm]) =>
                   nm \in Elems(args.frameworks)
        /\ "a@b@c" \in Elems(args.frameworks) =>
             Some("b@c") \in Elems(requested_frameworks["a"])
        /\ "sanic@" \in Elems(args.frameworks) =>
             Some("") \in Elems(requested_frameworks["sanic"])
        /\ pc = "done" =>
             \A s \in Elems(args.frameworks) : HasAdapter(BeforeFirst(s, "@")) =>
                \E f \in Returned :
                   /\ result[f].name = BeforeFirst(s, "@")
                   /\ result[f].version = VersionPart(s)

C10_Witness ==
    /\ pc = "done"
    /\ args.frameworks = <<"a@b@c", "sanic@", "sanic">>
    /\ requested_frameworks["a"] = <<Some("b@c")>>
    /\ requested_frameworks["sanic"] = <<Some(""), None>>
    /\ \E f \in Returned : result[f].name = "a" /\ result[f].version = Some("b@c")

====
